---- MODULE Spec2Model ----
(***************************************************************************)
(* Model of the human_oversight approval gate                              *)
(* (src/app/human_oversight: decorator.py, approval.py, logging_utils.py,  *)
(* constants.py, config.py).                                               *)
(*                                                                         *)
(* One gate is constructed by approval_gate(...); NumInv callers then each *)
(* run the wrapper once.  A wrapper run is split at the points where it    *)
(* blocks on something outside the gate: the approval round trip and the   *)
(* target operation.  Python values are modelled as strings, dicts as      *)
(* functions over their keys, None as the token None.                      *)
(***************************************************************************)
EXTENDS Integers, Sequences, FiniteSets, TLC

\* ------------------------------------------------------------------ bounds
NumInv == 2        \* number of wrapper invocations
MaxArgs == 3       \* longest generated positional argument list

Inv == 1..NumInv

\* --------------------------------------------------------------- constants
\* constants.py
TIMEOUT_SECONDS == 120
DEFAULT_REFUSAL_VALUE == "Approval denied or timed out via Human Oversight Approval Gate."

\* class ApprovalStatus(str, Enum): the .value of each member
ApprovalStatus ==
    [INITIATED |-> "Initiated", APPROVED |-> "Approved", REJECTED |-> "Rejected",
     TIMEOUT |-> "Timeout", ERROR |-> "Error",
     EXECUTED |-> "Executed", EXECUTION_FAILED |-> "ExecutionFailed"]

StatusVocabulary == {ApprovalStatus[k] : k \in DOMAIN ApprovalStatus}

\* Python's None
None == "None"

\* ------------------------------------------------------------ python dicts
EmptyDict == [k \in {} |-> None]

\* dict.get(key, default)
Get(d, k, default) == IF k \in DOMAIN d THEN d[k] ELSE default

\* d.update(u): the keys of u overwrite those of d
Update(d, u) == u @@ d

\* ------------------------------------------------------- values and faults
\* A value json.dumps cannot encode (an object() instance).
OBJ == "object()"
\* A list that contains itself, and a list nested deeper than the
\* interpreter's recursion limit.
CIRCULAR == "[[...]]"
DEEP == "[[[[...]]]]"
Values == {"srv-1", OBJ}

\* json.dumps({name: v}): "ok", or the exception it raises
JsonDumps(v) ==
    CASE v = OBJ      -> "TypeError"
      [] v = CIRCULAR -> "ValueError"
      [] v = DEEP     -> "RecursionError"
      [] OTHER        -> "ok"

\* json.dumps succeeds on v
Encodable(v) == JsonDumps(v) = "ok"

\* type(value).__name__
TypeName(v) ==
    CASE v = OBJ               -> "object"
      [] v \in {CIRCULAR, DEEP} -> "list"
      [] OTHER                 -> "str"

Fault(type, msg) == [type |-> type, msg |-> msg]

\* str(exception)
Str(e) == e.msg

Return(v) == [kind |-> "return", val |-> v]
Raise(e)  == [kind |-> "raise", exc |-> e]
NoResult  == [kind |-> "none"]

\* logging_utils.get_current_timestamp: the wall clock is not modelled,
\* every reading is the same opaque token.
get_current_timestamp == "utc-now"

\* ----------------------------------------------------- the gate's callers
\* Configuration the gate is constructed with (approval_gate's arguments).
AgentName == "SecurityAgent"
ActionDescription == "Format Hard Drive"
ApproverEmails == <<"security@example.com", "admin@example.com">>
\* refusal_return_value as passed to approval_gate: left out, or a value
Omitted == "<omitted>"
RefusalArgs == {Omitted, "Security policy violation: operation rejected"}
\* os.getenv("HO_LOGIC_APP_URL"): unset, set to the empty string, or a URL
EndpointValues == {None, "", "https://test-gate.example.com"}

\* inspect.signature(func).parameters of the target
\* (test_gate_functionality.critical_operation(resource_id, confirm=False))
ParamNames == <<"resource_id", "confirm">>

\* The argument lists callers pass: (args, kwargs)
CallArgs ==
    { [args |-> <<"srv-1">>, kwargs |-> [confirm |-> "srv-1"]],
      [args |-> <<"srv-1">>, kwargs |-> [confirm |-> OBJ]],
      [args |-> <<OBJ>>,     kwargs |-> EmptyDict],
      [args |-> <<"srv-1">>, kwargs |-> [confirm |-> DEEP]] }

\* What the target operation does when it is run.
TargetOutcomes ==
    { Return("Performed critical operation"),
      Raise(Fault("ValueError", "Test error")) }

\* ------------------------------------------------- the approval service
\* JSON bodies of a 2xx answer.  A dict is a function over its keys; a
\* non-dict body keeps only its JSON type.
Dict(d)  == [type |-> "dict", fields |-> d]
JsonNull == [type |-> "null", fields |-> EmptyDict]
JsonList == [type |-> "list", fields |-> EmptyDict]   \* a non-empty array

Bodies ==
    { Dict([status |-> "Approved", approver |-> "bob@x"]),
      Dict([status |-> "Approved"]),
      Dict([status |-> "Rejected", approver |-> "carol@x"]),
      Dict([status |-> "Pending",  approver |-> "bob@x"]),
      Dict([status |-> "approved", approver |-> "bob@x"]),
      Dict([approver |-> "bob@x"]),
      Dict(EmptyDict),
      JsonNull,
      JsonList }

\* What requests.post / raise_for_status / response.json() can do.
Responses ==
    { [kind |-> "timeout",          body |-> JsonNull],    \* requests.exceptions.Timeout
      [kind |-> "connection_error", body |-> JsonNull],    \* requests.exceptions.ConnectionError
      [kind |-> "http_error",       body |-> JsonNull],    \* non-2xx: raise_for_status raises HTTPError
      [kind |-> "invalid_json",     body |-> JsonNull] }   \* 2xx, body is not JSON
    \cup { [kind |-> "ok", body |-> b] : b \in Bodies }

\* response.json() of a null body is Python's None, which is also what
\* send_approval_request hands back when it has no data.
NoData == JsonNull

\* Python truthiness of a parsed body (None and {} are falsy)
Truthy(data) ==
    CASE data.type = "dict"   -> DOMAIN data.fields # {}
      [] data.type = "null"   -> FALSE
      [] OTHER                -> TRUE

\* ------------------------------------------------------------ approval.py
\* The exceptions create_serializable_parameters catches (line 44)
SerializerCatches == {"TypeError", "OverflowError", "ValueError"}

\* create_serializable_parameters raises: json.dumps raised something the
\* except clause does not name
SerializerRaises(kwargs) ==
    \E name \in DOMAIN kwargs :
        JsonDumps(kwargs[name]) \notin ({"ok"} \cup SerializerCatches)

\* the exception that then leaves create_serializable_parameters
SerializerFault == Fault("RecursionError", "maximum recursion depth exceeded while encoding a JSON object")

\* create_serializable_parameters, when it returns: each keyword value is
\* kept if json.dumps({name: value}) succeeds, else replaced by the sentinel.
create_serializable_parameters(kwargs) ==
    [name \in DOMAIN kwargs |->
        IF Encodable(kwargs[name])
        THEN kwargs[name]
        ELSE "<unserializable: " \o TypeName(kwargs[name]) \o ">"]

\* create_approval_payload with the first two arguments exchanged
create_approval_payload_swapped(agent_name, action_description, parameters, approver_emails, correlation_id) ==
    [agentName |-> action_description,
     actionDescription |-> agent_name,
     parameters |-> parameters,
     approverEmails |-> approver_emails,
     correlationId |-> correlation_id,
     timestamp |-> get_current_timestamp]

create_approval_payload(agent_name, action_description, parameters, approver_emails, correlation_id) ==
    [agentName |-> agent_name,
     actionDescription |-> action_description,
     parameters |-> parameters,
     approverEmails |-> approver_emails,
     correlationId |-> correlation_id,
     timestamp |-> get_current_timestamp]

\* the request posted to what the environment holds at the time of the call
post_url_reads_environment(config_url, env) == env

\* requests.post(HO_LOGIC_APP_URL, ...): the URL is the module's global,
\* bound when config.py was imported; os.environ is not consulted
post_url(config_url, env) == config_url

\* send_approval_request without raise_for_status
send_approval_request_ignores_status(response) ==
    IF response.kind \in {"ok", "http_error"}
    THEN <<TRUE, response.body>>
    ELSE <<FALSE, NoData>>

\* send_approval_request: (success, response_data).  Timeout is caught by
\* the first except clause, every other RequestException by the second
\* (HTTPError from raise_for_status, ConnectionError, and the
\* requests.exceptions.JSONDecodeError that response.json() raises on a body
\* that is not JSON); both clauses return (False, None).
send_approval_request(response) ==
    IF response.kind = "ok"
    THEN <<TRUE, response.body>>
    ELSE <<FALSE, NoData>>

\* is_approval_granted comparing without regard to case
is_approval_granted_ignorecase(response_data) ==
    Get(response_data.fields, "status", None) \in {"Approved", "approved"}

\* is_approval_granted testing for the absence of a rejection
is_approval_granted_not_rejected(response_data) ==
    Get(response_data.fields, "status", None) # ApprovalStatus.REJECTED

\* is_approval_granted
is_approval_granted(response_data) ==
    Get(response_data.fields, "status", None) = ApprovalStatus.APPROVED

\* every failed request taken for a timeout
SuccessIsTimeoutInstance_on_failure(success) == ~success

\* `success` is the boolean send_approval_request returned, so
\* isinstance(success, requests.exceptions.Timeout) is False.
SuccessIsTimeoutInstance(success) == FALSE

\* update_log_with_response building a new record from the answer
update_log_with_response_replaces(log_event, success, response_data) ==
    IF ~success
    THEN Update(log_event, [Status |-> ApprovalStatus.ERROR,
                            CompletionTimestamp |-> get_current_timestamp,
                            Error |-> "HTTP request failed"])
    ELSE IF Truthy(response_data)
         THEN [PartitionKey |-> log_event.PartitionKey,
               RowKey |-> log_event.RowKey,
               Parameters |-> log_event.Parameters,
               Status |-> Get(response_data.fields, "status", None),
               Approver |-> Get(response_data.fields, "approver", "Unknown"),
               CompletionTimestamp |-> get_current_timestamp]
         ELSE log_event

\* update_log_with_response, for the response data it can read
\* (None or a dict)
update_log_with_response(log_event, success, response_data) ==
    IF ~success
    THEN LET status == IF SuccessIsTimeoutInstance(success)
                       THEN ApprovalStatus.TIMEOUT ELSE ApprovalStatus.ERROR
             updated == Update(log_event,
                               [Status |-> status,
                                CompletionTimestamp |-> get_current_timestamp])
         IN  IF ~SuccessIsTimeoutInstance(success)
             THEN Update(updated, [Error |-> "HTTP request failed"])
             ELSE updated
    ELSE IF Truthy(response_data)
         THEN Update(log_event,
                     [Status |-> Get(response_data.fields, "status", None),
                      Approver |-> Get(response_data.fields, "approver", "Unknown"),
                      CompletionTimestamp |-> get_current_timestamp])
         ELSE log_event

\* response_data.get exists only on a dict: a truthy body of another JSON
\* type makes update_log_with_response raise AttributeError at line 137.
UpdateLogRaises(success, response_data) ==
    success /\ Truthy(response_data) /\ response_data.type # "dict"

\* --------------------------------------------------------- logging_utils.py
\* create_initial_log_event with the two keys exchanged
create_initial_log_event_swapped_keys(agent_name, correlation_id, action_description, parameters) ==
    [PartitionKey |-> correlation_id,
     RowKey |-> agent_name,
     Status |-> "Initiated",
     Timestamp |-> get_current_timestamp,
     ActionDescription |-> action_description,
     Parameters |-> parameters]

create_initial_log_event(agent_name, correlation_id, action_description, parameters) ==
    [PartitionKey |-> agent_name,
     RowKey |-> correlation_id,
     Status |-> "Initiated",
     Timestamp |-> get_current_timestamp,
     ActionDescription |-> action_description,
     Parameters |-> parameters]

\* log_approval_event calls json.dumps(event_data) before handing the text
\* to the logger; json.dumps raises TypeError on a value it cannot encode.
\* The only field that holds caller-supplied values is Parameters.
JsonDumpsRaises(event_data) ==
    \E k \in DOMAIN event_data.Parameters : ~Encodable(event_data.Parameters[k])

JsonTypeError == Fault("TypeError", "Object of type object is not JSON serializable")

\* What leaves logger.info when a handler of the application's logging
\* configuration raises from emit: nothing in log_approval_event or in its
\* callers catches it.
SinkFault == Fault("OSError", "audit sink unavailable")

\* log_approval_event raises: json.dumps did, or logger.info did
LogApprovalEventRaises(event_data, logger_fails) ==
    JsonDumpsRaises(event_data) \/ logger_fails

\* the exception that then leaves log_approval_event (json.dumps runs first)
LogFault(event_data) ==
    IF JsonDumpsRaises(event_data) THEN JsonTypeError ELSE SinkFault

\* log_approval_event discarding the record
log_approval_event_dropped(events, event_data) == events

\* log_approval_event writing the record in front of the earlier ones
log_approval_event_prepends(events, event_data) == <<event_data>> \o events

\* log_approval_event keyed on RowKey: the record replaces the entry of the
\* same correlation id when there is one
log_approval_event_upsert(events, event_data) ==
    IF \E k \in 1..Len(events) : events[k].RowKey = event_data.RowKey
    THEN [k \in 1..Len(events) |->
             IF events[k].RowKey = event_data.RowKey THEN event_data ELSE events[k]]
    ELSE Append(events, event_data)

\* log_approval_event writing every record twice
log_approval_event_twice(events, event_data) == Append(Append(events, event_data), event_data)

\* log_approval_event, when it returns: the text json.dumps made of the
\* record, as the record is at this moment, is handed to the logger, which
\* puts it after everything it was handed before.
log_approval_event(events, event_data) == Append(events, event_data)

\* ------------------------------------------------------------ decorator.py
\* validate_configuration without its test of the endpoint
validate_configuration_skip(url) == NoResult

\* validate_configuration: raises ValueError when the endpoint is unset
\* (`not HO_LOGIC_APP_URL`: None or the empty string)
validate_configuration(url) ==
    IF url \in {None, ""}
    THEN Raise(Fault("ValueError", "HO_LOGIC_APP_URL environment variable must be set"))
    ELSE NoResult

\* the synthetic name numbered from the first extra value
ArgName_overflow_index(param_names, i) ==
    IF i < Len(param_names)
    THEN param_names[i + 1]
    ELSE "arg" \o ToString(i - Len(param_names))

\* the synthetic name numbered from one
ArgName_one_based(param_names, i) ==
    IF i < Len(param_names) THEN param_names[i + 1] ELSE "arg" \o ToString(i + 1)

\* wrapper, lines 158-173: the name under which positional value i is stored
ArgName(param_names, i) ==
    IF i < Len(param_names) THEN param_names[i + 1] ELSE "arg" \o ToString(i)

\* wrapper, lines 158-173: positional values under their names (a later
\* position overwrites an earlier one of the same name), then
\* parameters.update(create_serializable_parameters(kwargs))
BuildParameters(param_names, args, kwargs) ==
    LET Idx == 0..(Len(args) - 1)
        names == {ArgName(param_names, i) : i \in Idx}
        last(n) == CHOOSE i \in Idx :
                       /\ ArgName(param_names, i) = n
                       /\ \A j \in Idx : ArgName(param_names, j) = n => j <= i
        positional == [n \in names |-> args[last(n) + 1]]
    IN  Update(positional, create_serializable_parameters(kwargs))

\* handle_approval_response without the is_approval_granted test
handle_approval_response_no_check(response_data) == Truthy(response_data)

\* handle_approval_response letting an empty answer through
handle_approval_response_empty_approved(response_data) ==
    IF ~Truthy(response_data)
    THEN TRUE
    ELSE is_approval_granted(response_data)

\* handle_approval_response: TRUE when the target is to be executed,
\* FALSE when the refusal value is returned
handle_approval_response(response_data) ==
    IF ~Truthy(response_data)
    THEN FALSE
    ELSE is_approval_granted(response_data)

\* the Executed event without its ExecutionTimestamp
ExecutedEvent_no_timestamp(log_event) ==
    Update(log_event, [Status |-> ApprovalStatus.EXECUTED])

\* execute_function_with_logging: the record logged and the outcome handed
\* to the caller, given what func(*args, **kwargs) did
ExecutedEvent(log_event) ==
    Update(log_event, [Status |-> ApprovalStatus.EXECUTED,
                       ExecutionTimestamp |-> get_current_timestamp])

\* the failure event recording the fault's type instead of str(exception)
ExecutionFailedEvent_type_name(log_event, exception) ==
    Update(log_event, [Status |-> ApprovalStatus.EXECUTION_FAILED,
                       Error |-> exception.type,
                       ExecutionTimestamp |-> get_current_timestamp])

\* the failure event built without the approval fields of the record
ExecutionFailedEvent_drops_approver(log_event, exception) ==
    Update([k \in DOMAIN log_event \ {"Approver", "CompletionTimestamp"} |-> log_event[k]],
           [Status |-> ApprovalStatus.EXECUTION_FAILED,
            Error |-> Str(exception),
            ExecutionTimestamp |-> get_current_timestamp])

ExecutionFailedEvent(log_event, exception) ==
    Update(log_event, [Status |-> ApprovalStatus.EXECUTION_FAILED,
                       Error |-> Str(exception),
                       ExecutionTimestamp |-> get_current_timestamp])

\* one identifier drawn when the gate is built and shared by every call
uuid4_once(i) == "uuid-0"

\* str(uuid.uuid4()) as drawn by invocation i; the draws of distinct
\* invocations are taken to be distinct.
uuid4(i) == "uuid-" \o ToString(i)

\* ------------------------------------------------------------------- state
VARIABLES
    environ,            \* os.environ's HO_LOGIC_APP_URL as it is now
    HO_LOGIC_APP_URL,   \* config.HO_LOGIC_APP_URL, read from the environment at import
    logger_raises,      \* the application's logging handlers raise from logger.info
    gate,               \* the decorator approval_gate(...) returned, or its fault
    pc,                 \* pc[i]: where wrapper invocation i stands
    call,               \* call[i]: the (args, kwargs) invocation i was called with
    correlation_id,     \* wrapper local
    log_event,          \* wrapper local: the working audit record
    payload,            \* wrapper local: the approval request
    sent,               \* sent[i]: requests posted to the approval service
    posted_to,          \* posted_to[i]: the URL invocation i's request was posted to
    response,           \* response[i]: what the approval service did
    success,            \* wrapper local
    response_data,      \* wrapper local
    trail,              \* trail[i]: the events log_approval_event emitted, in order
    calls,              \* calls[i]: how often the target was called
    target,             \* target[i]: what the target did
    result,             \* result[i]: what the wrapper handed its caller
    received,           \* received[i]: the (args, kwargs) the target was called with
    fn_sig,             \* a target's declared parameters (inspect.signature)
    fn_call,            \* the (args, kwargs) of a call of that target
    param_map,          \* the parameter map the wrapper builds for fn_call
    ser_map,            \* create_serializable_parameters(fn_call.kwargs)
    sink,               \* everything the logger was handed, by all threads, in order
    writers             \* writers[i]: thread i's progress through its emissions

\* the variables of the parameter mapping taken on its own
pvars == <<fn_sig, fn_call, param_map, ser_map>>

vars == <<environ, HO_LOGIC_APP_URL, logger_raises, gate, pc, call, correlation_id, log_event, payload,
          sent, posted_to, response, success, response_data, trail, calls, target, result,
          received, fn_sig, fn_call, param_map, ser_map, sink, writers>>

\* the variables of the shared sink and of the threads writing to it
svars == <<sink, writers>>

\* a thread that has not entered the wrapper
IdleWriter ==
    [at |-> "idle", log_event |-> EmptyDict, emitted |-> <<>>,
     success |-> FALSE, response_data |-> NoData]

SinkIdle ==
    /\ sink = <<>>
    /\ writers = [i \in Inv |-> IdleWriter]

NoCall == [args |-> <<>>, kwargs |-> EmptyDict]
NoResponse == [kind |-> "none", body |-> JsonNull]
NoGate == [state |-> "none", configured |-> Omitted, refusal_return_value |-> None,
           fault |-> NoResult, endpoint |-> None]

\* no request has been posted
NotPosted == "<not posted>"

\* no wrapper has been called yet
GateIdle ==
    /\ gate = NoGate
    /\ pc = [i \in Inv |-> "idle"]
    /\ call = [i \in Inv |-> NoCall]
    /\ correlation_id = [i \in Inv |-> None]
    /\ log_event = [i \in Inv |-> EmptyDict]
    /\ payload = [i \in Inv |-> EmptyDict]
    /\ sent = [i \in Inv |-> 0]
    /\ posted_to = [i \in Inv |-> NotPosted]
    /\ response = [i \in Inv |-> NoResponse]
    /\ success = [i \in Inv |-> FALSE]
    /\ response_data = [i \in Inv |-> NoData]
    /\ trail = [i \in Inv |-> <<>>]
    /\ calls = [i \in Inv |-> 0]
    /\ target = [i \in Inv |-> NoResult]
    /\ result = [i \in Inv |-> NoResult]
    /\ received = [i \in Inv |-> NoCall]

\* config.py line 20, run once when the package is imported
Init ==
    /\ environ \in EndpointValues
    /\ HO_LOGIC_APP_URL = environ
    /\ logger_raises \in BOOLEAN
    /\ GateIdle
    /\ fn_sig = <<>>
    /\ fn_call = NoCall
    /\ param_map = NoResult
    /\ ser_map = NoResult
    /\ SinkIdle

\* ----------------------------------------------------------------- actions
\* approval_gate's parameter default: refusal_return_value = DEFAULT_REFUSAL_VALUE
RefusalDefault(refusal) == IF refusal = Omitted THEN DEFAULT_REFUSAL_VALUE ELSE refusal

\* approval_gate(agent_name, action_description, approver_emails,
\* refusal_return_value): validate_configuration, then the decorator.
approval_gate ==
    /\ gate.state = "none"
    /\ \E refusal \in RefusalArgs :
         LET v == validate_configuration(HO_LOGIC_APP_URL)
         IN  gate' = IF v.kind = "raise"
                     THEN [state |-> "failed", configured |-> refusal,
                           refusal_return_value |-> None, fault |-> v,
                           endpoint |-> HO_LOGIC_APP_URL]
                     ELSE [state |-> "ready", configured |-> refusal,
                           refusal_return_value |-> RefusalDefault(refusal),
                           fault |-> NoResult, endpoint |-> HO_LOGIC_APP_URL]
    /\ UNCHANGED pvars
    /\ UNCHANGED svars
    /\ UNCHANGED <<environ, HO_LOGIC_APP_URL, logger_raises, pc, call, correlation_id, log_event, payload,
                   sent, posted_to, response, success, response_data, trail, calls, target, result,
                   received>>

\* the wrapper going on to the approval request after a failed emission
wrapper_on_log_fault_swallowed(fault) == [pc |-> "requesting", result |-> NoResult]

\* An exception leaving log_approval_event at wrapper line 181: the wrapper
\* has no try, so the call ends there with that exception
wrapper_on_log_fault(fault) == [pc |-> "done", result |-> Raise(fault)]

\* wrapper, lines 155-189: correlation id, parameter map, the Initiated
\* event and its emission, the approval payload.  An exception leaving
\* create_serializable_parameters, or json.dumps or logger.info raising
\* inside log_approval_event, ends the call with that exception.
wrapper(i) ==
    /\ gate.state = "ready"
    /\ pc[i] = "idle"
    /\ \E a \in CallArgs :
         LET cid == uuid4(i)
             parameters == BuildParameters(ParamNames, a.args, a.kwargs)
             event == create_initial_log_event(AgentName, cid, ActionDescription, parameters)
         IN  /\ call' = [call EXCEPT ![i] = a]
             /\ correlation_id' = [correlation_id EXCEPT ![i] = cid]
             /\ IF SerializerRaises(a.kwargs)
                THEN /\ result' = [result EXCEPT ![i] = Raise(SerializerFault)]
                     /\ pc' = [pc EXCEPT ![i] = "done"]
                     /\ UNCHANGED <<log_event, trail, payload>>
                ELSE IF LogApprovalEventRaises(event, logger_raises)
                THEN /\ log_event' = [log_event EXCEPT ![i] = event]
                     /\ result' = [result EXCEPT ![i] = wrapper_on_log_fault(LogFault(event)).result]
                     /\ pc' = [pc EXCEPT ![i] = wrapper_on_log_fault(LogFault(event)).pc]
                     /\ UNCHANGED <<trail, payload>>
                ELSE /\ log_event' = [log_event EXCEPT ![i] = event]
                     /\ trail' = [trail EXCEPT ![i] = log_approval_event(@, event)]
                     /\ payload' = [payload EXCEPT ![i] =
                            create_approval_payload(AgentName, ActionDescription,
                                                    parameters, ApproverEmails, cid)]
                     /\ pc' = [pc EXCEPT ![i] = "requesting"]
                     /\ UNCHANGED result
    /\ UNCHANGED pvars
    /\ UNCHANGED svars
    /\ UNCHANGED <<environ, HO_LOGIC_APP_URL, logger_raises, gate, sent, posted_to, response, success, response_data,
                   calls, target, received>>

\* request_approval sending again after a failed round trip
request_approval_retries(ok) == IF ok THEN "responded" ELSE "requesting"

\* Where the invocation stands once request_approval has logged the
\* outcome: back in the wrapper at line 197, whatever the outcome was.
request_approval_returns(ok) == "responded"

\* request_approval: send_approval_request, update_log_with_response,
\* log_approval_event; control is back in the wrapper at line 197.
request_approval(i) ==
    /\ pc[i] = "requesting"
    /\ \E r \in Responses :
         LET sr == send_approval_request(r)
             updated_log == update_log_with_response(log_event[i], sr[1], sr[2])
         IN  /\ response' = [response EXCEPT ![i] = r]
             /\ sent' = [sent EXCEPT ![i] = @ + 1]
             /\ posted_to' = [posted_to EXCEPT ![i] = post_url(HO_LOGIC_APP_URL, environ)]
             /\ IF UpdateLogRaises(sr[1], sr[2])
                THEN /\ result' = [result EXCEPT ![i] =
                            Raise(Fault("AttributeError", "object has no attribute 'get'"))]
                     /\ pc' = [pc EXCEPT ![i] = "done"]
                     /\ UNCHANGED <<log_event, trail, success, response_data>>
                ELSE IF LogApprovalEventRaises(updated_log, logger_raises)
                THEN /\ log_event' = [log_event EXCEPT ![i] = updated_log]
                     /\ result' = [result EXCEPT ![i] = Raise(LogFault(updated_log))]
                     /\ pc' = [pc EXCEPT ![i] = "done"]
                     /\ UNCHANGED <<trail, success, response_data>>
                ELSE /\ log_event' = [log_event EXCEPT ![i] = updated_log]
                     /\ trail' = [trail EXCEPT ![i] = log_approval_event(@, updated_log)]
                     /\ success' = [success EXCEPT ![i] = sr[1]]
                     /\ response_data' = [response_data EXCEPT ![i] = sr[2]]
                     /\ pc' = [pc EXCEPT ![i] = request_approval_returns(sr[1])]
                     /\ UNCHANGED result
    /\ UNCHANGED pvars
    /\ UNCHANGED svars
    /\ UNCHANGED <<environ, HO_LOGIC_APP_URL, logger_raises, gate, call, correlation_id, payload, calls, target,
                   received>>

\* the target called with the keyword values of the parameter map
func_arguments_from_map(args, kwargs) ==
    [args |-> args, kwargs |-> create_serializable_parameters(kwargs)]

\* func(*args, **kwargs): the wrapper's own args and kwargs are handed on
\* through handle_approval_response to execute_function_with_logging
func_arguments(args, kwargs) == [args |-> args, kwargs |-> kwargs]

\* the decision of an earlier call with the same arguments, when there is one
decision_deduplicated(i) ==
    LET earlier == {j \in Inv : j < i /\ call[j] = call[i] /\ sent[j] = 1
                                /\ pc[j] \in {"responded", "executing", "done"}}
        first == CHOOSE j \in earlier : \A k \in earlier : j <= k
    IN  IF earlier = {}
        THEN <<success[i], response_data[i]>>
        ELSE <<success[first], response_data[first]>>

\* The (success, response_data) the wrapper decides on: the locals that
\* request_approval's return value was unpacked into in this call (line 191)
decision_of(i) == <<success[i], response_data[i]>>

\* wrapper lines 197-208 and handle_approval_response up to the call of the
\* target: the refusal value is returned, or func(*args, **kwargs) starts.
handle_response(i) ==
    /\ pc[i] = "responded"
    /\ IF decision_of(i)[1] /\ handle_approval_response(decision_of(i)[2])
       THEN /\ calls' = [calls EXCEPT ![i] = @ + 1]
            /\ received' = [received EXCEPT ![i] =
                   func_arguments(call[i].args, call[i].kwargs)]
            /\ pc' = [pc EXCEPT ![i] = "executing"]
            /\ UNCHANGED result
       ELSE /\ result' = [result EXCEPT ![i] = Return(gate.refusal_return_value)]
            /\ pc' = [pc EXCEPT ![i] = "done"]
            /\ UNCHANGED <<calls, received>>
    /\ UNCHANGED pvars
    /\ UNCHANGED svars
    /\ UNCHANGED <<environ, HO_LOGIC_APP_URL, logger_raises, gate, call, correlation_id, log_event, payload,
                   sent, posted_to, response, success, response_data, trail, target>>

\* execute_function_with_logging without its `return result`
execute_function_with_logging_drops_result(outcome) ==
    IF outcome.kind = "return" THEN Return(None) ELSE outcome

\* What execute_function_with_logging hands the wrapper's caller once the
\* target has done `outcome`: the target's value, or its fault re-raised.
execute_function_with_logging(outcome) == outcome

\* execute_function_with_logging, lines 67-76: the target returned.  The
\* emission of the Executed event is inside the try: an exception leaving
\* log_approval_event is caught at line 78 like a fault of the target, and
\* the record is turned into a failure record (lines 80-84).
target_returns(i) ==
    /\ pc[i] = "executing"
    /\ \E o \in {t \in TargetOutcomes : t.kind = "return"} :
         LET event == ExecutedEvent(log_event[i])
         IN  /\ target' = [target EXCEPT ![i] = o]
             /\ IF LogApprovalEventRaises(event, logger_raises)
                THEN /\ log_event' = [log_event EXCEPT ![i] =
                            ExecutionFailedEvent(event, LogFault(event))]
                     /\ pc' = [pc EXCEPT ![i] = "failing"]
                     /\ UNCHANGED <<trail, result>>
                ELSE /\ log_event' = [log_event EXCEPT ![i] = event]
                     /\ trail' = [trail EXCEPT ![i] = log_approval_event(@, event)]
                     /\ result' = [result EXCEPT ![i] = execute_function_with_logging(o)]
                     /\ pc' = [pc EXCEPT ![i] = "done"]
    /\ UNCHANGED pvars
    /\ UNCHANGED svars
    /\ UNCHANGED <<environ, HO_LOGIC_APP_URL, logger_raises, gate, call, correlation_id, payload, sent, posted_to,
                   response, success, response_data, calls, received>>

\* execute_function_with_logging, lines 78-86: the target raised.  An
\* exception leaving log_approval_event at line 85 takes the place of the
\* target's.
target_raises(i) ==
    /\ pc[i] = "executing"
    /\ \E o \in {t \in TargetOutcomes : t.kind = "raise"} :
         LET event == ExecutionFailedEvent(log_event[i], o.exc)
         IN  /\ target' = [target EXCEPT ![i] = o]
             /\ log_event' = [log_event EXCEPT ![i] = event]
             /\ pc' = [pc EXCEPT ![i] = "done"]
             /\ IF LogApprovalEventRaises(event, logger_raises)
                THEN /\ result' = [result EXCEPT ![i] = Raise(LogFault(event))]
                     /\ UNCHANGED trail
                ELSE /\ trail' = [trail EXCEPT ![i] = log_approval_event(@, event)]
                     /\ result' = [result EXCEPT ![i] = execute_function_with_logging(o)]
    /\ UNCHANGED pvars
    /\ UNCHANGED svars
    /\ UNCHANGED <<environ, HO_LOGIC_APP_URL, logger_raises, gate, call, correlation_id, payload, sent, posted_to,
                   response, success, response_data, calls, received>>

\* execute_function_with_logging, lines 85-86, after the emission of the
\* Executed event raised: the failure record is emitted and the exception
\* caught at line 78 is raised again; if this emission raises too, its
\* exception leaves instead.
log_execution_failure(i) ==
    /\ pc[i] = "failing"
    /\ IF LogApprovalEventRaises(log_event[i], logger_raises)
       THEN UNCHANGED trail
       ELSE trail' = [trail EXCEPT ![i] = log_approval_event(@, log_event[i])]
    /\ result' = [result EXCEPT ![i] = Raise(LogFault(log_event[i]))]
    /\ pc' = [pc EXCEPT ![i] = "done"]
    /\ UNCHANGED pvars
    /\ UNCHANGED svars
    /\ UNCHANGED <<environ, HO_LOGIC_APP_URL, logger_raises, gate, call, correlation_id,
                   log_event, payload, sent, posted_to, response, success, response_data,
                   calls, target, received>>

Next ==
    \/ approval_gate
    \/ \E i \in Inv : wrapper(i)
    \/ \E i \in Inv : request_approval(i)
    \/ \E i \in Inv : handle_response(i)
    \/ \E i \in Inv : target_returns(i)
    \/ \E i \in Inv : target_raises(i)

Spec == Init /\ [][Next]_vars

\* ------------------------------------------ one call, changing surroundings
\* One caller runs the wrapper while the process around it changes: the
\* logging handlers start or stop raising at any moment, and os.environ is
\* written to after the package was imported.

\* the caller
Caller == CHOOSE i \in Inv : \A j \in Inv : i <= j

\* a handler of the logging configuration starts, or stops, raising
logger_changes ==
    /\ logger_raises' = ~logger_raises
    /\ UNCHANGED pvars
    /\ UNCHANGED svars
    /\ UNCHANGED <<environ, HO_LOGIC_APP_URL, gate, pc, call, correlation_id, log_event,
                   payload, sent, posted_to, response, success, response_data, trail,
                   calls, target, result, received>>

\* os.environ["HO_LOGIC_APP_URL"] is set or deleted; config.py is not run
\* again, so the module global keeps its value
setenv ==
    /\ \E v \in EndpointValues \ {environ} : environ' = v
    /\ UNCHANGED pvars
    /\ UNCHANGED svars
    /\ UNCHANGED <<HO_LOGIC_APP_URL, logger_raises, gate, pc, call, correlation_id,
                   log_event, payload, sent, posted_to, response, success, response_data,
                   trail, calls, target, result, received>>

NextEnv ==
    \/ approval_gate
    \/ wrapper(Caller)
    \/ request_approval(Caller)
    \/ handle_response(Caller)
    \/ target_returns(Caller)
    \/ target_raises(Caller)
    \/ log_execution_failure(Caller)
    \/ logger_changes
    \/ setenv

SpecEnv == Init /\ [][NextEnv]_vars

\* The approval call completes or times out (requests.post is bounded by
\* TIMEOUT_SECONDS), the thread running the wrapper keeps being scheduled,
\* and the target, once started, terminates.
FairnessEnv ==
    /\ WF_vars(request_approval(Caller))
    /\ WF_vars(handle_response(Caller))
    /\ WF_vars(target_returns(Caller) \/ target_raises(Caller))
    /\ WF_vars(log_execution_failure(Caller))

SpecEnvFair == SpecEnv /\ FairnessEnv

\* ---------------------------------------- the parameter mapping on its own
\* Declared parameters of a target: name and inspect.Parameter kind
Param(name, kind) == [name |-> name, kind |-> kind]

\* def f(a, b)
SigAB == <<Param("a", "POSITIONAL_OR_KEYWORD"), Param("b", "POSITIONAL_OR_KEYWORD")>>

\* def complex_function(a, b, *args, c=None, **kwargs), with the names of
\* f(a, b, *rest, c=None, **kw)
SigComplex ==
    <<Param("a", "POSITIONAL_OR_KEYWORD"), Param("b", "POSITIONAL_OR_KEYWORD"),
      Param("rest", "VAR_POSITIONAL"), Param("c", "KEYWORD_ONLY"),
      Param("kw", "VAR_KEYWORD")>>

\* def critical_operation(resource_id, confirm=False)
SigCritical ==
    <<Param("resource_id", "POSITIONAL_OR_KEYWORD"),
      Param("confirm", "POSITIONAL_OR_KEYWORD")>>

Signatures == {SigAB, SigComplex, SigCritical}

\* list(inspect.signature(func).parameters.keys()): every declared name,
\* of whatever kind
param_names(sig) == [k \in 1..Len(sig) |-> sig[k].name]

\* Positional argument lists: all short lists over a few values, and the
\* lists of the documented calls
SeqsUpTo(S, n) == UNION {[1..k -> S] : k \in 0..n}

PositionalLists ==
    SeqsUpTo({"1", "2", OBJ}, MaxArgs)
        \cup {<<"1", "2", "3">>, <<"1", "x", "e1", "e2">>}

KeywordMaps ==
    { EmptyDict,
      [c |-> "z", opt |-> "True"],
      [id |-> "123", obj |-> OBJ],
      [id |-> "123", loop |-> CIRCULAR],
      [id |-> "123", deep |-> DEEP],
      [obj |-> OBJ, loop |-> CIRCULAR] }

Mapped(m) == [kind |-> "map", map |-> m]

InitParams ==
    /\ environ = "https://test-gate.example.com"
    /\ HO_LOGIC_APP_URL = environ
    /\ logger_raises = FALSE
    /\ GateIdle
    /\ fn_sig \in Signatures
    /\ fn_call \in [args : PositionalLists, kwargs : KeywordMaps]
    /\ param_map = NoResult
    /\ ser_map = NoResult
    /\ SinkIdle

\* wrapper, lines 158-173, for the call fn_call of a target declared fn_sig
map_parameters ==
    /\ param_map = NoResult
    /\ param_map' =
          IF SerializerRaises(fn_call.kwargs)
          THEN Raise(SerializerFault)
          ELSE Mapped(BuildParameters(param_names(fn_sig), fn_call.args, fn_call.kwargs))
    /\ UNCHANGED <<environ, HO_LOGIC_APP_URL, logger_raises, gate, pc, call, correlation_id, log_event, payload,
                   sent, posted_to, response, success, response_data, trail, calls, target, result,
                   received, fn_sig, fn_call, ser_map>>
    /\ UNCHANGED svars

\* create_serializable_parameters(kwargs) called on fn_call's named values
serialize ==
    /\ ser_map = NoResult
    /\ ser_map' =
          IF SerializerRaises(fn_call.kwargs)
          THEN Raise(SerializerFault)
          ELSE Mapped(create_serializable_parameters(fn_call.kwargs))
    /\ UNCHANGED <<environ, HO_LOGIC_APP_URL, logger_raises, gate, pc, call, correlation_id, log_event, payload,
                   sent, posted_to, response, success, response_data, trail, calls, target, result,
                   received, fn_sig, fn_call, param_map>>
    /\ UNCHANGED svars

NextParams ==
    \/ map_parameters
    \/ serialize

SpecParams == InitParams /\ [][NextParams]_vars

\* ------------------------------------------- the shared sink and its writers
\* Threads run the wrapper concurrently; each builds and mutates its own
\* log_event dict and hands it to log_approval_event, which all threads
\* share.  A thread's run is split at every mutation and every emission of
\* its record, so that the steps of different threads interleave there.

\* the call every thread makes
SinkCall == [args |-> <<"srv-1">>, kwargs |-> [confirm |-> "srv-1"]]

\* what the approval service does for these threads
SinkResponses ==
    {r \in Responses :
        \/ r.kind = "timeout"
        \/ r.kind = "ok" /\ r.body = Dict([status |-> "Approved", approver |-> "bob@x"])
        \/ r.kind = "ok" /\ r.body = Dict(EmptyDict)}

InitSink ==
    /\ environ = "https://test-gate.example.com"
    /\ HO_LOGIC_APP_URL = environ
    /\ logger_raises = FALSE
    /\ GateIdle
    /\ fn_sig = <<>>
    /\ fn_call = NoCall
    /\ param_map = NoResult
    /\ ser_map = NoResult
    /\ SinkIdle

\* wrapper, lines 155-180: the thread's record is created
create_record(i) ==
    /\ writers[i].at = "idle"
    /\ writers' = [writers EXCEPT ![i] =
          [@ EXCEPT !.at = "built",
                    !.log_event = create_initial_log_event(
                        AgentName, uuid4(i), ActionDescription,
                        BuildParameters(ParamNames, SinkCall.args, SinkCall.kwargs))]]
    /\ UNCHANGED sink
    /\ UNCHANGED pvars
    /\ UNCHANGED <<environ, HO_LOGIC_APP_URL, logger_raises, gate, pc, call, correlation_id,
                   log_event, payload, sent, posted_to, response, success, response_data, trail,
                   calls, target, result, received>>

\* request_approval, lines 170-172: the answer is in and
\* update_log_with_response mutates the thread's record
mutate_outcome(i) ==
    /\ writers[i].at = "waiting"
    /\ \E r \in SinkResponses :
         LET sr == send_approval_request(r)
         IN  writers' = [writers EXCEPT ![i] =
                 [@ EXCEPT !.at = "updated",
                           !.log_event = update_log_with_response(@, sr[1], sr[2]),
                           !.success = sr[1],
                           !.response_data = sr[2]]]
    /\ UNCHANGED sink
    /\ UNCHANGED pvars
    /\ UNCHANGED <<environ, HO_LOGIC_APP_URL, logger_raises, gate, pc, call, correlation_id,
                   log_event, payload, sent, posted_to, response, success, response_data, trail,
                   calls, target, result, received>>

\* execute_function_with_logging, lines 68-73 and 78-84: the target ran and
\* log_event.update mutates the thread's record
mutate_execution(i) ==
    /\ writers[i].at = "decided"
    /\ \E o \in TargetOutcomes :
         writers' = [writers EXCEPT ![i] =
             [@ EXCEPT !.at = "ran",
                       !.log_event = IF o.kind = "return"
                                     THEN ExecutedEvent(@)
                                     ELSE ExecutionFailedEvent(@, o.exc)]]
    /\ UNCHANGED sink
    /\ UNCHANGED pvars
    /\ UNCHANGED <<environ, HO_LOGIC_APP_URL, logger_raises, gate, pc, call, correlation_id,
                   log_event, payload, sent, posted_to, response, success, response_data, trail,
                   calls, target, result, received>>

\* where a thread goes on after an emission: to the approval request after
\* the first, to the target after the second if the wrapper's tests
\* (lines 197-200, handle_approval_response) let it, else out
AfterEmit(w) ==
    CASE w.at = "built" -> "waiting"
      [] w.at = "updated" ->
            IF w.success /\ handle_approval_response(w.response_data)
            THEN "decided" ELSE "done"
      [] OTHER -> "done"

\* log_approval_event(log_event), called by thread i at wrapper line 181,
\* request_approval line 173 or execute_function_with_logging line 74 / 85
emit(i) ==
    /\ writers[i].at \in {"built", "updated", "ran"}
    /\ sink' = log_approval_event(sink, writers[i].log_event)
    /\ writers' = [writers EXCEPT ![i] =
          [@ EXCEPT !.at = AfterEmit(writers[i]),
                    !.emitted = Append(@, writers[i].log_event)]]
    /\ UNCHANGED pvars
    /\ UNCHANGED <<environ, HO_LOGIC_APP_URL, logger_raises, gate, pc, call, correlation_id,
                   log_event, payload, sent, posted_to, response, success, response_data, trail,
                   calls, target, result, received>>

NextSink ==
    \/ \E i \in Inv : create_record(i)
    \/ \E i \in Inv : mutate_outcome(i)
    \/ \E i \in Inv : mutate_execution(i)
    \/ \E i \in Inv : emit(i)

SpecSink == InitSink /\ [][NextSink]_vars

\* ------------------------------------------------------------ vocabulary
\* The Status fields of the events invocation i emitted, in order
Statuses(i) == [k \in 1..Len(trail[i]) |-> trail[i][k].Status]

LastEvent(i) == trail[i][Len(trail[i])]

Done(i) == pc[i] = "done"

\* The approval service answered 2xx with a JSON object or null
AnsweredPayload(i) ==
    response[i].kind = "ok" /\ response[i].body.type \in {"dict", "null"}

\* The status the approval service put in its answer (None when absent)
AnsweredStatus(i) == Get(response[i].body.fields, "status", None)

ServiceApproved(i) == AnsweredPayload(i) /\ AnsweredStatus(i) = "Approved"
ServiceRejected(i) == AnsweredPayload(i) /\ AnsweredStatus(i) = "Rejected"

\* The approval call failed in transport
TransportFailed(i) ==
    response[i].kind \in {"timeout", "connection_error", "http_error", "invalid_json"}

\* The refusal value the gate was configured with
ConfiguredRefusal ==
    IF gate.configured = Omitted THEN DEFAULT_REFUSAL_VALUE ELSE gate.configured

TerminalStatuses == {"Rejected", "Timeout", "Error", "Executed", "ExecutionFailed"}

LegalTransition(a, b) ==
    \/ a = "Initiated" /\ b \in {"Approved", "Rejected", "Timeout", "Error"}
    \/ a = "Approved" /\ b \in {"Executed", "ExecutionFailed"}

\* ------------------------------------------------------------------ claims

\* C1: when the approval service answers Approved and the target returns a
\* value, the gated call returns exactly that value and the audit trail of
\* the invocation is exactly [Initiated, Approved, Executed].
C1_ApprovedReturnsTargetValue ==
    \A i \in Inv :
        (Done(i) /\ ServiceApproved(i) /\ target[i].kind # "raise") =>
            /\ target[i].kind = "return"
            /\ result[i] = target[i]
            /\ Statuses(i) = <<"Initiated", "Approved", "Executed">>

C1_Witness ==
    \E i \in Inv :
        /\ Done(i) /\ ServiceApproved(i)
        /\ target[i] = Return("Performed critical operation")
        /\ result[i] = target[i]

\* C2: when the approval service answers Rejected, or the approval call
\* fails in transport, the target is never called, the gated call returns
\* the configured refusal value (the default string when none was
\* configured), and the audit trail is Initiated followed by exactly one
\* terminal status.
C2_RefusedNeverCalls ==
    \A i \in Inv :
        (ServiceRejected(i) \/ TransportFailed(i)) =>
            /\ calls[i] = 0
            /\ target[i] = NoResult
            /\ Done(i) =>
                  /\ result[i] = Return(ConfiguredRefusal)
                  /\ Len(trail[i]) = 2
                  /\ Statuses(i)[1] = "Initiated"
                  /\ Statuses(i)[2] \in TerminalStatuses

C2_Witness ==
    \E i, j \in Inv :
        /\ Done(i) /\ ServiceRejected(i)
        /\ Done(j) /\ response[j].kind = "http_error"
        /\ gate.configured = Omitted
        /\ result[i] = Return(DEFAULT_REFUSAL_VALUE)
        /\ result[j] = Return(DEFAULT_REFUSAL_VALUE)

\* C3: in every state of an invocation, whatever its outcome, the target
\* has been called at most once, and only if the service's decision for this
\* invocation was Approved and the Approved audit event was emitted before
\* the target started (while the target runs, Approved is the last event).
C3_AtMostOnceAfterApproved ==
    \A i \in Inv :
        /\ calls[i] <= 1
        /\ calls[i] = 1 =>
              /\ ServiceApproved(i)
              /\ Len(trail[i]) >= 2
              /\ Statuses(i)[2] = "Approved"
              /\ pc[i] = "executing" => LastEvent(i).Status = "Approved"

C3_Witness ==
    \E i, j \in Inv :
        /\ pc[i] = "executing" /\ calls[i] = 1
        /\ Done(j) /\ calls[j] = 1 /\ result[j].kind = "raise"

\* C4: if the target raises after an Approved decision, the gated call
\* raises that same fault, and the last audit event has status
\* ExecutionFailed with Error equal to str(fault).
C4_TargetFaultPropagates ==
    \A i \in Inv :
        (Done(i) /\ target[i].kind = "raise") =>
            /\ result[i] = Raise(target[i].exc)
            /\ LastEvent(i).Status = "ExecutionFailed"
            /\ "Error" \in DOMAIN LastEvent(i)
            /\ LastEvent(i).Error = Str(target[i].exc)

C4_Witness ==
    \E i \in Inv :
        /\ Done(i) /\ ServiceApproved(i)
        /\ target[i] = Raise(Fault("ValueError", "Test error"))
        /\ result[i] = target[i]

\* C5 (as claimed): a gate invocation raises toward its caller only when
\* the target itself raised after being approved; for every call argument
\* and every behaviour of the approval service it otherwise returns.
C5_RaisesOnlyTargetFaults ==
    \A i \in Inv :
        result[i].kind = "raise" => (calls[i] = 1 /\ target[i] = result[i])

\* C6: when the approval service answers 2xx with a payload whose status is
\* anything but the exact token Approved (Rejected, Pending, another
\* spelling, no status field), the target is never called and the gated
\* call returns the refusal value.
C6_OnlyExactApprovedExecutes ==
    \A i \in Inv :
        (AnsweredPayload(i) /\ AnsweredStatus(i) # "Approved") =>
            /\ calls[i] = 0
            /\ pc[i] # "executing"
            /\ Done(i) => result[i] = Return(ConfiguredRefusal)

C6_Witness ==
    \E i, j \in Inv :
        /\ Done(i) /\ AnsweredPayload(i) /\ AnsweredStatus(i) = "approved"
        /\ Done(j) /\ AnsweredPayload(j) /\ AnsweredStatus(j) = None
        /\ response[j].body.type = "dict"
        /\ result[i] = Return(ConfiguredRefusal)

\* C7 (as claimed): when the approval call times out, the gated call
\* returns the refusal value and the audit trail is exactly
\* [Initiated, Timeout].
C7_TimeoutTrail ==
    \A i \in Inv :
        (Done(i) /\ response[i].kind = "timeout") =>
            /\ result[i] = Return(ConfiguredRefusal)
            /\ Statuses(i) = <<"Initiated", "Timeout">>

\* C8 (as claimed): every pair of consecutive statuses in an invocation's
\* audit trail is a legal transition, Initiated to Approved, Rejected,
\* Timeout or Error, or Approved to Executed or ExecutionFailed.
C8_LegalTransitions ==
    \A i \in Inv :
        \A k \in 1..(Len(trail[i]) - 1) :
            LegalTransition(Statuses(i)[k], Statuses(i)[k + 1])

\* C9 (as claimed): the Status of every emitted audit event is one of the
\* seven tokens of the status vocabulary.
C9_ClosedVocabulary ==
    \A i \in Inv :
        \A k \in 1..Len(trail[i]) : Statuses(i)[k] \in StatusVocabulary

\* C10 (as claimed): every invocation that has returned or raised has a
\* last audit event whose status is terminal.
C10_CompletedEndsTerminal ==
    \A i \in Inv :
        Done(i) =>
            /\ Len(trail[i]) >= 1
            /\ LastEvent(i).Status \in TerminalStatuses

\* C11: constructing a gate while the endpoint is not configured raises a
\* configuration fault at construction; no wrapper exists, so that gate has
\* no invocation, no audit event and no approval request.
C11_UnconfiguredGateFails ==
    (HO_LOGIC_APP_URL \in {None, ""} /\ gate.state # "none") =>
        /\ gate.state = "failed"
        /\ gate.fault.kind = "raise"
        /\ gate.fault.exc.type = "ValueError"
        /\ \A i \in Inv :
              /\ pc[i] = "idle"
              /\ trail[i] = <<>>
              /\ sent[i] = 0
              /\ calls[i] = 0

C11_Witness ==
    /\ HO_LOGIC_APP_URL = None
    /\ gate.state = "failed"
    /\ gate.fault.kind = "raise"

\* C12: any two invocations carry distinct correlation ids, in their wrapper
\* and in every audit event they emit; an id is never used again by another
\* invocation.  (Distinct draws of uuid4 are taken to be distinct values.)
C12_DistinctCorrelationIds ==
    \A i, j \in Inv :
        (i # j /\ pc[i] # "idle" /\ pc[j] # "idle") =>
            /\ correlation_id[i] # correlation_id[j]
            /\ \A k \in 1..Len(trail[i]) : \A l \in 1..Len(trail[j]) :
                  trail[i][k].RowKey # trail[j][l].RowKey

C12_Witness ==
    \E i, j \in Inv :
        /\ i # j /\ Done(i) /\ Done(j)
        /\ call[i] = call[j]
        /\ Len(trail[i]) = 3 /\ Len(trail[j]) = 3
        /\ correlation_id[i] # correlation_id[j]

\* C13: within one invocation one correlation id is generated and never
\* changes: the correlationId of the approval request and the RowKey of
\* every audit event of that invocation are that id.
C13_OneCorrelationId ==
    /\ [](\A i \in Inv :
            pc[i] # "idle" =>
              /\ correlation_id[i] # None
              /\ \A k \in 1..Len(trail[i]) : trail[i][k].RowKey = correlation_id[i]
              /\ sent[i] >= 1 => payload[i].correlationId = correlation_id[i])
    /\ [][\A i \in Inv :
            pc[i] # "idle" => correlation_id'[i] = correlation_id[i]]_vars

C13_Witness ==
    \E i \in Inv :
        /\ Done(i) /\ sent[i] = 1 /\ Len(trail[i]) = 3
        /\ payload[i].correlationId = correlation_id[i]
        /\ \A k \in 1..3 : trail[i][k].RowKey = correlation_id[i]

\* C14 (as claimed): every value of the parameter map built for a call, the
\* map handed to the Initiated event and to the approval request, is
\* transport-safe; an argument that fails the serializability check,
\* positional or named, is in the map as the sentinel string, never raw.
C14_ParameterMapTransportSafe ==
    \A i \in Inv :
        "Parameters" \in DOMAIN log_event[i] =>
            \A k \in DOMAIN log_event[i].Parameters :
                Encodable(log_event[i].Parameters[k])

\* C18: when a call is approved, the target receives exactly the caller's
\* positional values, in order, and named values, under their names,
\* whatever the parameter map shows for them.
C18_TargetGetsOriginalArguments ==
    \A i \in Inv :
        calls[i] = 1 =>
            /\ received[i].args = call[i].args
            /\ DOMAIN received[i].kwargs = DOMAIN call[i].kwargs
            /\ \A n \in DOMAIN call[i].kwargs :
                  received[i].kwargs[n] = call[i].kwargs[n]

C18_Witness ==
    \E i \in Inv :
        /\ calls[i] = 1 /\ Done(i)
        /\ call[i].kwargs.confirm = OBJ
        /\ trail[i][1].Parameters.confirm = "<unserializable: object>"
        /\ received[i].kwargs.confirm = OBJ
        /\ received[i].args = <<"srv-1">>

\* The sentinel strings, written out
Sentinels == {"<unserializable: object>", "<unserializable: list>"}

\* The synthetic names 'arg' followed by 0, 1, 2, ..., written out
SyntheticNames == <<"arg0", "arg1", "arg2", "arg3", "arg4", "arg5">>

OrdinaryOnly(sig) == \A k \in 1..Len(sig) : sig[k].kind = "POSITIONAL_OR_KEYWORD"

\* C15 (as claimed): create_serializable_parameters is total: for every
\* named-value map it returns a map with exactly the input's keys, each
\* value that encodes kept, each value that fails to encode, in whatever
\* way, replaced by a sentinel string; it never raises.
C15_SerializerTotal ==
    ser_map # NoResult =>
        /\ ser_map.kind = "map"
        /\ DOMAIN ser_map.map = DOMAIN fn_call.kwargs
        /\ \A n \in DOMAIN fn_call.kwargs :
              IF JsonDumps(fn_call.kwargs[n]) = "ok"
              THEN ser_map.map[n] = fn_call.kwargs[n]
              ELSE ser_map.map[n] \in Sentinels

\* C16: for a target declared with ordinary parameters only, the positional
\* value at position i is in the parameter map under the declared name at
\* that position, or under 'arg' followed by i when i is beyond the declared
\* names: f(a, b) called f(1, 2) gives {a: 1, b: 2}, f(1, 2, 3) stores the
\* third value under arg2.
C16_PositionalNames ==
    (param_map.kind = "map" /\ OrdinaryOnly(fn_sig)) =>
        /\ \A p \in 1..Len(fn_call.args) :
              LET name == IF p <= Len(fn_sig) THEN fn_sig[p].name ELSE SyntheticNames[p]
              IN  name \notin DOMAIN fn_call.kwargs =>
                    /\ name \in DOMAIN param_map.map
                    /\ Encodable(fn_call.args[p]) => param_map.map[name] = fn_call.args[p]
        /\ (fn_sig = SigAB /\ fn_call.args = <<"1", "2">> /\ fn_call.kwargs = EmptyDict) =>
              /\ DOMAIN param_map.map = {"a", "b"}
              /\ param_map.map.a = "1" /\ param_map.map.b = "2"
        /\ (fn_sig = SigAB /\ fn_call.args = <<"1", "2", "3">>) =>
              /\ "arg2" \in DOMAIN param_map.map
              /\ param_map.map.arg2 = "3"

C16_Witness ==
    /\ fn_sig = SigAB
    /\ fn_call.args = <<"1", "2", "3">>
    /\ fn_call.kwargs = EmptyDict
    /\ param_map.kind = "map"
    /\ DOMAIN param_map.map = {"a", "b", "arg2"}
    /\ param_map.map.arg2 = "3"

\* C17 (as claimed): for f(a, b, *rest, c=None, **kw) positional values
\* beyond a and b are recorded under synthetic names, never under the names
\* of the variadic, keyword-only or catch-all parameters, and none is lost:
\* f(1, 'x', 'e1', 'e2', c='z', opt=True) gives
\* {a: 1, b: 'x', arg2: 'e1', arg3: 'e2', c: 'z', opt: true}.
C17_VariadicSignature ==
    (param_map.kind = "map" /\ fn_sig = SigComplex) =>
        /\ \A p \in 3..Len(fn_call.args) :
              /\ SyntheticNames[p] \in DOMAIN param_map.map
              /\ Encodable(fn_call.args[p]) =>
                    param_map.map[SyntheticNames[p]] = fn_call.args[p]
        /\ "rest" \notin DOMAIN param_map.map
        /\ "kw" \notin DOMAIN param_map.map
        /\ "c" \in DOMAIN param_map.map => "c" \in DOMAIN fn_call.kwargs
        /\ (fn_call.args = <<"1", "x", "e1", "e2">>
             /\ DOMAIN fn_call.kwargs = {"c", "opt"}) =>
              /\ DOMAIN param_map.map = {"a", "b", "arg2", "arg3", "c", "opt"}
              /\ param_map.map.arg2 = "e1" /\ param_map.map.arg3 = "e2"
              /\ param_map.map.c = "z"

\* The invocation got as far as posting its approval request
ReachedApproval(i) == pc[i] \in {"responded", "executing"} \/ (Done(i) /\ Len(trail[i]) >= 1)

\* C19: an invocation that reaches the approval step sends exactly one
\* approval request, whatever its outcome; after a timeout, a transport
\* error or a rejection nothing is sent again.
C19_ExactlyOneRequest ==
    \A i \in Inv :
        /\ sent[i] <= 1
        /\ ReachedApproval(i) => sent[i] = 1
        /\ (response[i] # NoResponse) => sent[i] = 1
        /\ sent[i] = 1 => Len(trail[i]) <= 3

C19_Witness ==
    \E i, j \in Inv :
        /\ Done(i) /\ response[i].kind = "timeout" /\ sent[i] = 1
        /\ Done(j) /\ ServiceRejected(j) /\ sent[j] = 1

\* The wrapper has acted on the outcome of the invocation's own request
Decided(i) == pc[i] \in {"executing", "done"} /\ sent[i] = 1

\* C20: two invocations of the same gated operation, in any interleaving
\* and even with identical arguments, each make their own round trip, and
\* each executes the target exactly when the decision for its own request
\* is Approved, whatever the decision of the other.
C20_IndependentDecisions ==
    \A i \in Inv :
        /\ calls[i] >= 1 => ServiceApproved(i)
        /\ Decided(i) => (calls[i] = 1 <=> ServiceApproved(i))
        /\ Decided(i) => payload[i].correlationId = correlation_id[i]
        /\ \A j \in Inv :
              (i # j /\ sent[i] = 1 /\ sent[j] = 1) =>
                  payload[i].correlationId # payload[j].correlationId

C20_Witness ==
    \E i, j \in Inv :
        /\ i < j /\ call[i] = call[j]
        /\ Done(i) /\ ServiceRejected(i) /\ calls[i] = 0
        /\ Done(j) /\ ServiceApproved(j) /\ calls[j] = 1
        /\ sent[i] = 1 /\ sent[j] = 1

\* log_approval_event raised in invocation i
EmissionFailed(i) == result[i] \in {Raise(SinkFault), Raise(JsonTypeError)}

\* C21 (as claimed): a failure while emitting an audit event does not change
\* the gate's control flow: no invocation raises because of it, and with a
\* failing sink every invocation whose arguments were mapped still sends
\* its approval request and runs the target exactly when the decision is
\* Approved.
C21_SinkFailureIsolated ==
    \A i \in Inv :
        /\ ~EmissionFailed(i)
        /\ (logger_raises /\ Done(i) /\ result[i] # Raise(SerializerFault)) =>
              /\ sent[i] = 1
              /\ calls[i] = 1 <=> ServiceApproved(i)

\* C23 (as claimed): no status is revisited within one invocation: in every
\* audit trail, for every answer of the approval service, a 2xx answer with
\* an empty or null body included, every status appears at most once and
\* Initiated is the status of the first event.
C23_NoStatusRevisited ==
    \A i \in Inv :
        /\ \A k, l \in 1..Len(trail[i]) :
              k # l => Statuses(i)[k] # Statuses(i)[l]
        /\ Len(trail[i]) >= 1 => Statuses(i)[1] = "Initiated"

\* The wrapper returned a value without the target having been called
Refused(i) == Done(i) /\ calls[i] = 0 /\ result[i].kind = "return"

\* C24: within one invocation the Initiated event is emitted before the
\* approval request is sent; the event recording the outcome is emitted
\* after the response or failure is in, and before the wrapper returns the
\* refusal value or starts the target.
C24_EmissionOrder ==
    \A i \in Inv :
        /\ pc[i] = "requesting" => (sent[i] = 0 /\ Len(trail[i]) = 1)
        /\ sent[i] >= 1 =>
              /\ Len(trail[i]) >= 1
              /\ trail[i][1].Status = "Initiated"
        /\ Len(trail[i]) >= 2 => response[i] # NoResponse
        /\ pc[i] = "responded" =>
              /\ Len(trail[i]) = 2
              /\ calls[i] = 0 /\ result[i] = NoResult
        /\ (calls[i] >= 1 \/ Refused(i)) =>
              /\ Len(trail[i]) >= 2
              /\ (TransportFailed(i) \/ Truthy(response[i].body)) =>
                    "CompletionTimestamp" \in DOMAIN trail[i][2]

C24_Witness ==
    \E i, j \in Inv :
        /\ pc[i] = "executing" /\ calls[i] = 1 /\ Len(trail[i]) = 2
        /\ trail[i][2].Status = "Approved"
        /\ Refused(j) /\ TransportFailed(j) /\ Len(trail[j]) = 2
        /\ result[j] = Return(ConfiguredRefusal)

\* C22 (as amended): a positional value beyond the declared names is named
\* by its zero-based position in the whole positional list: with n declared
\* names the first extra value is recorded under arg<n>, the next under
\* arg<n+1>, and no name arg<k> with k < n is made up.
C22_OverflowNamedByPosition ==
    (param_map.kind = "map" /\ OrdinaryOnly(fn_sig)) =>
        /\ \A p \in (Len(fn_sig) + 1)..Len(fn_call.args) :
              /\ SyntheticNames[p] \in DOMAIN param_map.map
              /\ SyntheticNames[p] \notin DOMAIN fn_call.kwargs =>
                    param_map.map[SyntheticNames[p]] = fn_call.args[p]
        /\ \A k \in 1..Len(fn_sig) :
              SyntheticNames[k] \in DOMAIN param_map.map =>
                  SyntheticNames[k] \in DOMAIN fn_call.kwargs

C22_Witness ==
    /\ fn_sig = SigCritical
    /\ fn_call.args = <<"1", "2", "3">>
    /\ fn_call.kwargs = EmptyDict
    /\ param_map.kind = "map"
    /\ param_map.map.arg2 = "3"
    /\ "arg0" \notin DOMAIN param_map.map

\* C22 (as claimed): positional values beyond the declared names are named
\* by their zero-based overflow index, the first extra value under arg0, the
\* second under arg1, whatever the number of declared names.
C22_OverflowNamedByOverflowIndex ==
    (param_map.kind = "map" /\ OrdinaryOnly(fn_sig)) =>
        \A p \in (Len(fn_sig) + 1)..Len(fn_call.args) :
            /\ SyntheticNames[p - Len(fn_sig)] \in DOMAIN param_map.map
            /\ param_map.map[SyntheticNames[p - Len(fn_sig)]] = fn_call.args[p]

C28_NoErrorNoteOnTimeout ==
    \A i \in Inv :
        (Done(i) /\ TransportFailed(i) /\ Len(trail[i]) >= 2) =>
            ("Error" \in DOMAIN LastEvent(i) <=> response[i].kind # "timeout")

\* The approval service answered 2xx with a non-empty JSON object
AnsweredDecision(i) ==
    /\ response[i].kind = "ok"
    /\ response[i].body.type = "dict"
    /\ Truthy(response[i].body)

\* C29: update_log_with_response called with success true and a non-empty
\* decision payload sets Status to the payload's status, Approver to the
\* payload's approver or to 'Unknown' when it has none, and
\* CompletionTimestamp; every other field of the event stays as it was.
C29_DecisionLogged ==
    \A i \in Inv :
        (AnsweredDecision(i) /\ Len(trail[i]) >= 2) =>
            LET before == trail[i][1]
                after  == trail[i][2]
                answer == response[i].body.fields
            IN  /\ after.Status = Get(answer, "status", None)
                /\ "Approver" \in DOMAIN after
                /\ after.Approver = IF "approver" \in DOMAIN answer
                                    THEN answer.approver ELSE "Unknown"
                /\ "CompletionTimestamp" \in DOMAIN after
                /\ after.CompletionTimestamp = get_current_timestamp
                /\ DOMAIN after = DOMAIN before \cup {"Approver", "CompletionTimestamp"}
                /\ \A k \in DOMAIN before \ {"Status"} : after[k] = before[k]

C29_Witness ==
    \E i, j \in Inv :
        /\ AnsweredDecision(i) /\ Len(trail[i]) >= 2
        /\ "approver" \notin DOMAIN response[i].body.fields
        /\ trail[i][2].Status = "Approved" /\ trail[i][2].Approver = "Unknown"
        /\ AnsweredDecision(j) /\ Len(trail[j]) >= 2
        /\ trail[j][2].Status = "Rejected" /\ trail[j][2].Approver = "carol@x"
        /\ trail[j][2].Parameters = trail[j][1].Parameters

\* request_approval has handed its result back to the wrapper
Returned(i) == pc[i] \in {"responded", "executing"} \/ (Done(i) /\ Len(trail[i]) >= 2)

\* C30: send_approval_request classifies every result of the network call
\* without raising: (true, parsed body) exactly for a 2xx answer whose body
\* parsed, (false, no data) for a timeout, a connection error, a non-2xx
\* status and a malformed body; never false together with data.
C30_RequestClassified ==
    \A i \in Inv :
        /\ TransportFailed(i) => (result[i].kind # "raise" /\ pc[i] # "requesting")
        /\ Returned(i) =>
              /\ success[i] <=> response[i].kind = "ok"
              /\ success[i] => response_data[i] = response[i].body
              /\ ~success[i] => response_data[i] = NoData
              /\ <<success[i], response_data[i]>> = send_approval_request(response[i])

C30_Witness ==
    \E i, j \in Inv :
        /\ Returned(i) /\ response[i].kind = "invalid_json"
        /\ ~success[i] /\ response_data[i] = NoData
        /\ Returned(j) /\ response[j].kind = "http_error"
        /\ ~success[j] /\ response_data[j] = NoData

\* The entries of the shared sink that carry the correlation id of thread i
SinkEntriesOf(i) ==
    LET Mine(e) == e.RowKey = uuid4(i)
    IN  SelectSeq(sink, Mine)

\* C25: under every interleaving of concurrent invocations writing to the
\* shared sink, the entries carrying one correlation id are exactly the
\* events that invocation emitted, in the order it emitted them; entries of
\* other invocations interleave without reordering, dropping or
\* duplicating them.
C25_PerIdOrderKept ==
    /\ \A i \in Inv : SinkEntriesOf(i) = writers[i].emitted
    /\ \A k \in 1..Len(sink) : \E i \in Inv : sink[k].RowKey = uuid4(i)

C25_Witness ==
    \E i, j \in Inv :
        /\ i # j
        /\ Len(writers[i].emitted) = 3 /\ Len(writers[j].emitted) = 2
        /\ \E k, l, m \in 1..Len(sink) :
              /\ k < l /\ l < m
              /\ sink[k].RowKey = uuid4(i) /\ sink[k].Status = "Initiated"
              /\ sink[l].RowKey = uuid4(j)
              /\ sink[m].RowKey = uuid4(i) /\ sink[m].Status = "Executed"

\* C26: the sink is append-only: a step either leaves it alone or adds one
\* entry at its end, equal to the emitting thread's record as it is at that
\* moment; a step that mutates a working record (status, Approver, Error,
\* timestamps) leaves every entry already in the sink as it was.
C26_AppendOnlySnapshots ==
    [][/\ Len(sink') >= Len(sink)
       /\ SubSeq(sink', 1, Len(sink)) = sink
       /\ sink' # sink =>
             /\ Len(sink') = Len(sink) + 1
             /\ \E i \in Inv :
                   /\ writers'[i].emitted # writers[i].emitted
                   /\ sink'[Len(sink')] = writers[i].log_event
       /\ (\E i \in Inv : writers'[i].log_event # writers[i].log_event) =>
             sink' = sink]_vars

C26_Witness ==
    \E i \in Inv :
        /\ Len(writers[i].emitted) = 2
        /\ writers[i].at = "ran"
        /\ writers[i].log_event.Status = "ExecutionFailed"
        /\ SinkEntriesOf(i) = writers[i].emitted
        /\ SinkEntriesOf(i)[1].Status = "Initiated"
        /\ SinkEntriesOf(i)[2].Status = "Approved"
        /\ "Error" \notin DOMAIN SinkEntriesOf(i)[2]

\* The fields an audit event must carry, by status
CommonFields == {"PartitionKey", "RowKey", "Status", "Timestamp"}

RequiredFields(status) ==
    CommonFields \cup
    (CASE status = "Initiated" -> {"ActionDescription", "Parameters"}
       [] status \in {"Approved", "Rejected"} -> {"Approver", "CompletionTimestamp"}
       [] status = "Error" -> {"Error", "CompletionTimestamp"}
       [] status = "Executed" -> {"ExecutionTimestamp"}
       [] status = "ExecutionFailed" -> {"Error", "CompletionTimestamp", "ExecutionTimestamp"}
       [] OTHER -> {})

AnsweredEmpty(i) ==
    /\ response[i].kind = "ok"
    /\ response[i].body \in {Dict(EmptyDict), JsonNull}

\* C35: when the approval service answers 2xx with an empty or null
\* decision payload, the target is never invoked and the gated call returns
\* the refusal value.
C35_EmptyAnswerRefused ==
    \A i \in Inv :
        AnsweredEmpty(i) =>
            /\ calls[i] = 0
            /\ target[i] = NoResult
            /\ pc[i] \in {"responded", "done"}
            /\ Done(i) => result[i] = Return(ConfiguredRefusal)

C35_Witness ==
    \E i, j \in Inv :
        /\ Done(i) /\ response[i].kind = "ok" /\ response[i].body = Dict(EmptyDict)
        /\ Done(j) /\ response[j].kind = "ok" /\ response[j].body = JsonNull
        /\ result[i] = Return(ConfiguredRefusal) /\ calls[i] = 0
        /\ result[j] = Return(ConfiguredRefusal) /\ calls[j] = 0

\* C37: the approval request sent for an invocation describes the same
\* action as its Initiated event: agentName, actionDescription, parameters
\* and correlationId equal the event's PartitionKey, ActionDescription,
\* Parameters and RowKey, and approverEmails is the configured list.
C37_RequestMatchesInitiated ==
    \A i \in Inv :
        (pc[i] = "requesting" \/ sent[i] >= 1) =>
            /\ Len(trail[i]) >= 1
            /\ trail[i][1].Status = "Initiated"
            /\ payload[i].agentName = trail[i][1].PartitionKey
            /\ payload[i].actionDescription = trail[i][1].ActionDescription
            /\ payload[i].parameters = trail[i][1].Parameters
            /\ payload[i].correlationId = trail[i][1].RowKey
            /\ payload[i].approverEmails = ApproverEmails

C37_Witness ==
    \E i \in Inv :
        /\ sent[i] = 1
        /\ call[i].kwargs = [confirm |-> OBJ]
        /\ payload[i].parameters = trail[i][1].Parameters
        /\ payload[i].parameters.confirm = "<unserializable: object>"
        /\ payload[i].agentName = AgentName
        /\ payload[i].correlationId = correlation_id[i]

IdentifyingFields == {"PartitionKey", "RowKey", "Timestamp", "ActionDescription", "Parameters"}

\* C38: every status transition leaves the identifying fields of the audit
\* record unchanged and removes no field: PartitionKey, RowKey, Timestamp,
\* ActionDescription and Parameters have in every later event the values of
\* the Initiated event, and each event contains every field of the one
\* before it.
C38_TransitionsKeepFields ==
    \A i \in Inv :
        \A k \in 2..Len(trail[i]) :
            /\ DOMAIN trail[i][k - 1] \subseteq DOMAIN trail[i][k]
            /\ \A f \in IdentifyingFields :
                  /\ f \in DOMAIN trail[i][k]
                  /\ trail[i][k][f] = trail[i][1][f]

C38_Witness ==
    \E i, j \in Inv :
        /\ Len(trail[i]) = 3 /\ LastEvent(i).Status = "ExecutionFailed"
        /\ DOMAIN trail[i][2] \subseteq DOMAIN trail[i][3]
        /\ "Approver" \in DOMAIN trail[i][3]
        /\ trail[i][3].Parameters = trail[i][1].Parameters
        /\ Len(trail[j]) = 2 /\ LastEvent(j).Status = "Error"
        /\ trail[j][2].RowKey = trail[j][1].RowKey

\* C32: the endpoint a gate's requests go to is the value that was checked
\* when the gate was constructed, whatever has happened to the environment
\* since: it is not read again per call, and a gate whose construction
\* succeeded never posts to an absent endpoint.
C32_EndpointFixedAtConstruction ==
    /\ gate.state # "none" => gate.endpoint = HO_LOGIC_APP_URL
    /\ \A i \in Inv :
          sent[i] >= 1 =>
              /\ gate.state = "ready"
              /\ posted_to[i] = gate.endpoint
              /\ posted_to[i] \notin {None, ""}
    /\ \A i \in Inv : sent[i] = 0 => posted_to[i] = NotPosted

C32_Witness ==
    /\ sent[Caller] = 1
    /\ environ = None
    /\ gate.state = "ready"
    /\ posted_to[Caller] = "https://test-gate.example.com"

\* How far an invocation has come
Rank(at) ==
    CASE at = "idle" -> 0
      [] at = "requesting" -> 1
      [] at = "responded" -> 2
      [] at = "executing" -> 3
      [] at = "failing" -> 4
      [] OTHER -> 5

\* C33: every invocation terminates: if the approval call completes or
\* times out and the target, once started, terminates, an invocation that
\* has begun eventually returns or raises, after at most one approval
\* request and at most three audit events, and it never goes back to an
\* earlier step.
C33_InvocationTerminates ==
    /\ [](\A i \in Inv : sent[i] <= 1 /\ Len(trail[i]) <= 3)
    /\ [][\A i \in Inv : pc'[i] # pc[i] => Rank(pc'[i]) > Rank(pc[i])]_vars
    /\ (pc[Caller] # "idle") ~> (Done(Caller) /\ result[Caller] # NoResult)

C33_Witness ==
    /\ Done(Caller)
    /\ sent[Caller] = 1
    /\ Len(trail[Caller]) = 3
    /\ result[Caller] = Return("Performed critical operation")

\* C34 (as claimed): an event with status ExecutionFailed is emitted only
\* when the target itself raised: when the target returned normally, even
\* if emitting the Executed event fails, the trail of the invocation holds
\* no ExecutionFailed event.
C34_ExecutionFailedOnlyOnTargetFault ==
    \A i \in Inv :
        (\E k \in 1..Len(trail[i]) : trail[i][k].Status = "ExecutionFailed") =>
            target[i].kind = "raise"

\* The emission of the Initiated event raised in invocation i
InitiatedEmissionFailed(i) == "Status" \in DOMAIN log_event[i] /\ Len(trail[i]) = 0

\* C36: if emitting the Initiated event fails with a fault, a parameter
\* value that cannot be encoded for one, the invocation stops there with
\* that fault: no approval request is sent and the target is not invoked.
C36_InitiatedFailureStops ==
    \A i \in Inv :
        InitiatedEmissionFailed(i) =>
            /\ Done(i)
            /\ EmissionFailed(i)
            /\ sent[i] = 0 /\ response[i] = NoResponse
            /\ calls[i] = 0 /\ target[i] = NoResult

C36_Witness ==
    \E i, j \in Inv :
        /\ InitiatedEmissionFailed(i) /\ result[i] = Raise(JsonTypeError)
        /\ call[i].args = <<OBJ>> /\ sent[i] = 0
        /\ InitiatedEmissionFailed(j) /\ result[j] = Raise(SinkFault)
        /\ sent[j] = 0 /\ calls[j] = 0

====
